---- MODULE Spec2Model ----
(***************************************************************************)
(* A model of app.py, the single-page CRM assistant: the session state     *)
(* (chat_history, documents, ready), one script run per user interaction,  *)
(* the blocking completion request, and the pure helpers chunk_text,       *)
(* get_relevant_chunks_tfidf and get_relevant_chunks_smart.                *)
(*                                                                         *)
(* Exceptions are results of kind "raise".                                 *)
(***************************************************************************)
EXTENDS Integers, Sequences, FiniteSets, TLC

VARIABLES
    chat_history,   \* st.session_state.chat_history: sequence of <<sender, msg>>
    documents,      \* st.session_state.documents: the stored chunk list
    ready,          \* st.session_state.ready
    pc,             \* position of the script run: "idle" or "posting" (inside requests.post)
    pending,        \* the locals of the run blocked in requests.post
    net,            \* the completion request on the wire: "none", "sent" or the reply
    run,            \* how the last script run fetched and how it ended
    call            \* the helper call under study (pure-function specifications)

vars == <<chat_history, documents, ready, pc, pending, net, run, call>>

(***************************************************************************)
(* Bounds of the model.                                                    *)
(***************************************************************************)
MaxTurns == 2       \* completed turns per session
MaxDocs == 2        \* chunks in a helper call's docs
MaxK == 2           \* k of a helper call ranges over 1..MaxK
MaxScore == 1       \* similarity scores are abstracted to 0..MaxScore
MaxChunkSize == 3   \* chunk_size of a chunk_text call ranges over 1..MaxChunkSize
MaxOverlap == 4     \* overlap of a chunk_text call ranges over 0..MaxOverlap

(***************************************************************************)
(* Program constants.                                                      *)
(***************************************************************************)
DEFAULT_CHUNK_SIZE == 200
DEFAULT_OVERLAP == 50
DEFAULT_K == 3

(***************************************************************************)
(* Results of a Python call: a value, or a raised exception.               *)
(***************************************************************************)
Ok(v) == [kind |-> "ok", val |-> v]
Raise(e) == [kind |-> "raise", exc |-> e]

Min(a, b) == IF a < b THEN a ELSE b

(***************************************************************************)
(* Python strings are sequences of one-character strings; Str converts a   *)
(* string literal.                                                         *)
(***************************************************************************)
Str(literal) == [i \in 1..Len(literal) |-> SubSeq(literal, i, i)]

UPPER == Str("ABCDEFGHIJKLMNOPQRSTUVWXYZ")
LOWER == Str("abcdefghijklmnopqrstuvwxyz")
DIGITS == Str("0123456789_")

InString(c, s) == \E i \in 1..Len(s) : s[i] = c

\* str.isspace for one character
IsSpace(c) == c \in {" ", "\n", "\t"}

\* \w of the vectorizer's token pattern
IsWordChar(c) == InString(c, LOWER) \/ InString(c, UPPER) \/ InString(c, DIGITS)

LowerChar(c) ==
    IF InString(c, UPPER)
    THEN LOWER[CHOOSE i \in 1..Len(UPPER) : UPPER[i] = c]
    ELSE c

\* str.lower()
lower(s) == [i \in 1..Len(s) |-> LowerChar(s[i])]

\* sub in s
Contains(sub, s) ==
    \E i \in 0..(Len(s) - Len(sub)) : SubSeq(s, i + 1, i + Len(sub)) = sub

\* The maximal runs of kept characters, left to right; cur is the run being
\* read.  With words = TRUE a character is kept when it is a \w character (the
\* vectorizer's tokens), otherwise when it is not whitespace (str.split).
Keep(c, words) == IF words THEN IsWordChar(c) ELSE ~IsSpace(c)

RECURSIVE Runs(_, _, _)
Runs(s, cur, words) ==
    IF s = <<>> THEN (IF cur = <<>> THEN <<>> ELSE <<cur>>)
    ELSE IF Keep(s[1], words) THEN Runs(Tail(s), Append(cur, s[1]), words)
    ELSE (IF cur = <<>> THEN <<>> ELSE <<cur>>) \o Runs(Tail(s), <<>>, words)

\* str.split() with no argument
split(text) == Runs(text, <<>>, FALSE)

\* sep.join(parts)
RECURSIVE join(_, _)
join(sep, parts) ==
    IF parts = <<>> THEN <<>>
    ELSE IF Len(parts) = 1 THEN parts[1]
    ELSE parts[1] \o sep \o join(sep, Tail(parts))

\* seq[lo:hi] for 0 <= lo, 0 <= hi
PySlice(seq, lo, hi) == SubSeq(seq, lo + 1, Min(hi, Len(seq)))

\* seq[-k:] for k >= 0; -0 is 0, so seq[-0:] is the whole sequence
PySliceLast(seq, k) ==
    IF k = 0 \/ k >= Len(seq) THEN seq ELSE SubSeq(seq, Len(seq) - k + 1, Len(seq))

\* seq[::-1]
Reverse(seq) == [i \in 1..Len(seq) |-> seq[Len(seq) + 1 - i]]

\* range(0, n, step) for a positive step, as the sequence of its values
RECURSIVE RangeFrom(_, _, _)
RangeFrom(i, n, step) == IF i >= n THEN <<>> ELSE <<i>> \o RangeFrom(i + step, n, step)

(***************************************************************************)
(* chunk_text(text, chunk_size, overlap)                                   *)
(***************************************************************************)
chunk_text(text, chunk_size, overlap) ==
    LET words == split(text)
        step == chunk_size - overlap
        starts == RangeFrom(0, Len(words), step)
    IN  IF step = 0 THEN Raise("ValueError")     \* range() arg 3 must not be zero
        ELSE IF step < 0 THEN Ok(<<>>)           \* range(0, n, negative) is empty
        ELSE Ok([j \in 1..Len(starts) |->
                    join(Str(" "), PySlice(words, starts[j], starts[j] + chunk_size))])

(***************************************************************************)
(* get_relevant_chunks_tfidf(query, docs, k)                               *)
(*                                                                         *)
(* TfidfVectorizer and cosine_similarity are library calls.  What the      *)
(* model keeps of them: the vectorizer's tokens (runs of two or more \w    *)
(* characters of the lowercased text), the ValueError of fit on an empty   *)
(* vocabulary, the ValueError of cosine_similarity on zero rows, and that  *)
(* a chunk's similarity is positive exactly when it shares a token with    *)
(* the query.  The scores themselves (sims) and the order argsort gives    *)
(* equal scores (perm; the default sort kind is not stable) are inputs.    *)
(***************************************************************************)
Range(seq) == {seq[i] : i \in 1..Len(seq)}

\* The vectorizer's analyzer: lowercase, then token_pattern (?u)\b\w\w+\b
Tokens(text) == {t \in Range(Runs(lower(text), <<>>, TRUE)) : Len(t) >= 2}

\* The vocabulary fitted on docs + [query]
Vocabulary(query, docs) == UNION {Tokens(d) : d \in Range(docs) \cup {query}}

\* The values cosine_similarity(vectors[-1], vectors[:-1])[0] can take
SimsFor(query, docs) ==
    LET shares == [i \in 1..Len(docs) |-> Tokens(docs[i]) \cap Tokens(query) # {}]
    IN  {s \in [1..Len(docs) -> 0..MaxScore] :
            /\ \A i \in 1..Len(docs) : (s[i] = 0) <=> ~shares[i]
            /\ \A i, j \in 1..Len(docs) : docs[i] = docs[j] => s[i] = s[j]}

IndexOrders(n) == {p \in [1..n -> 1..n] : \A i, j \in 1..n : p[i] = p[j] => i = j}

\* The values sims.argsort() can take: the indices in ascending order of score
Argsorts(sims) ==
    {p \in IndexOrders(Len(sims)) :
        \A i, j \in 1..Len(sims) : i < j => sims[p[i]] <= sims[p[j]]}

get_relevant_chunks_tfidf(query, docs, k, sims, perm) ==
    IF Vocabulary(query, docs) = {} THEN Raise("ValueError")   \* fit: empty vocabulary
    ELSE IF docs = <<>> THEN Raise("ValueError")               \* cosine_similarity: 0 samples
    ELSE LET top_k == Reverse(PySliceLast(perm, k))
         IN  Ok([j \in 1..Len(top_k) |-> docs[top_k[j]]])

(***************************************************************************)
(* get_relevant_chunks_smart(query, docs, k)                               *)
(***************************************************************************)
KeywordMatch(query, doc) ==
    \E w \in Range(split(query)) : Contains(lower(w), lower(doc))

\* get_relevant_chunks_smart with the two lower() calls forgotten
get_relevant_chunks_smart_case_sensitive(query, docs, k, sims, perm) ==
    LET Hit(doc) == \E w \in Range(split(query)) : Contains(w, doc)
        keyword_matches == SelectSeq(docs, Hit)
    IN  IF keyword_matches # <<>> THEN Ok(PySlice(keyword_matches, 0, k))
        ELSE get_relevant_chunks_tfidf(query, docs, k, sims, perm)

get_relevant_chunks_smart(query, docs, k, sims, perm) ==
    LET Hit(doc) == KeywordMatch(query, doc)
        keyword_matches == SelectSeq(docs, Hit)
    IN  IF keyword_matches # <<>> THEN Ok(PySlice(keyword_matches, 0, k))
        ELSE get_relevant_chunks_tfidf(query, docs, k, sims, perm)

(***************************************************************************)
(* The session state after the script's first lines (session state init).  *)
(***************************************************************************)
NoCall == [fn |-> "none"]
NoTurn == [user_input |-> <<>>, query |-> <<>>, prompt |-> <<>>]
NoReply == [kind |-> "none"]
NoRun == [fetch |-> "none", status |-> 0, end |-> "none", reply |-> NoReply]

SessionInit ==
    /\ chat_history = <<>>
    /\ documents = <<>>
    /\ ready = FALSE
    /\ pc = "idle"
    /\ pending = NoTurn
    /\ net = NoReply
    /\ run = NoRun

(***************************************************************************)
(* The helpers as pure functions: Init draws a call's arguments, an action *)
(* applies the helper and records its result in call.out.                  *)
(***************************************************************************)
ChunkTexts == {Str(""), Str("one"), Str("a b c d e"), Str(" refund  window\n30 days ")}

DocPool == {Str("order tracking info"), Str("Refund policy"), Str("careers page"), Str("a b")}

QueryPool ==
    {Str("refund"), Str("fun page"), Str("fun"), Str("zz top"), Str("policy? info?"),
     Str("Careers"), Str(""), Str(" ")}

SeqsUpTo(S, n) == UNION {[1..m -> S] : m \in 0..n}

NotRun == [kind |-> "pending"]

ChunkCalls ==
    {[fn |-> "chunk_text", text |-> t, chunk_size |-> c, overlap |-> o, out |-> NotRun] :
        t \in ChunkTexts, c \in 1..MaxChunkSize, o \in 0..MaxOverlap}

RankCalls(f) ==
    {[fn |-> f, query |-> q, docs |-> d, k |-> k, out |-> NotRun] :
        q \in QueryPool, d \in SeqsUpTo(DocPool, MaxDocs), k \in 1..MaxK}

PureInit ==
    /\ SessionInit
    /\ call \in ChunkCalls \cup RankCalls("tfidf") \cup RankCalls("smart")

session == <<chat_history, documents, ready, pc, pending, net, run>>

ApplyChunkText ==
    /\ call.fn = "chunk_text" /\ call.out = NotRun
    /\ call' = [call EXCEPT !.out = chunk_text(call.text, call.chunk_size, call.overlap)]
    /\ UNCHANGED session

\* The library's scores and argsort order for a call's docs; with no docs
\* there is nothing to score
Scored(c) ==
    UNION {{[sims |-> s, perm |-> p] : p \in Argsorts(s)} : s \in SimsFor(c.query, c.docs)}

ApplyTfidf ==
    /\ call.fn = "tfidf" /\ call.out = NotRun
    /\ \E sp \in Scored(call) :
         call' = [fn |-> "tfidf", query |-> call.query, docs |-> call.docs, k |-> call.k,
                  sims |-> sp.sims, perm |-> sp.perm,
                  out |-> get_relevant_chunks_tfidf(call.query, call.docs, call.k,
                                                    sp.sims, sp.perm)]
    /\ UNCHANGED session

ApplySmart ==
    /\ call.fn = "smart" /\ call.out = NotRun
    /\ \E sp \in Scored(call) :
         call' = [fn |-> "smart", query |-> call.query, docs |-> call.docs, k |-> call.k,
                  sims |-> sp.sims, perm |-> sp.perm,
                  out |-> get_relevant_chunks_smart(call.query, call.docs, call.k,
                                                    sp.sims, sp.perm)]
    /\ UNCHANGED session

PureNext == ApplyChunkText \/ ApplyTfidf \/ ApplySmart

PureSpec == PureInit /\ [][PureNext]_vars

(***************************************************************************)
(* The session: what the outside world can hand a script run.              *)
(***************************************************************************)
DocBodies == {Str(""), Str("Refund policy page"), Str("a b")}

\* requests.get(export_url): it raises on a network error and otherwise
\* returns the response, whatever its status
FetchOutcomes ==
    {[kind |-> "raise", status |-> 0, text |-> Str("")]}
        \cup {[kind |-> "response", status |-> 200, text |-> b] : b \in DocBodies}
        \cup {[kind |-> "response", status |-> 404, text |-> Str("Not Found")]}

\* ctx.form_data: absent, or the submitted user_input
UserInputs == {Str(""), Str("refund"), Str("zz"), Str(" ")}

FormData == {[present |-> FALSE, user_input |-> Str("")]}
                \cup {[present |-> TRUE, user_input |-> u] : u \in UserInputs}

\* detect(text): it raises, or names a language
Detections == {"raise", "en", "ur"}

\* GoogleTranslator(...).translate(text): it raises, or returns the translation
Translations == {Raise("TranslationError"), Ok(Str("refund"))}

Contents == {Str("30 days.")}

\* response.json(): the bodies the completion service can send
ReplyBodies ==
    {[kind |-> "completion", content |-> c] : c \in Contents}
        \cup {[kind |-> "no_choices", content |-> Str("")],
              [kind |-> "not_json", content |-> Str("")]}

\* requests.post(...): it raises on a network error and otherwise returns the
\* response, whatever its status
Replies ==
    {[kind |-> "raise", status |-> 0, body |-> [kind |-> "none", content |-> Str("")]]}
        \cup {[kind |-> "response", status |-> st, body |-> b] :
                st \in {200, 500}, b \in ReplyBodies}

(***************************************************************************)
(* translate_to_english(text)                                              *)
(***************************************************************************)
translate_to_english(text, detected_lang, translated) ==
    IF detected_lang = "raise" THEN text                        \* except: return text
    ELSE IF detected_lang \in {"ur", "hi"}
         THEN (IF translated.kind = "raise" THEN text ELSE translated.val)
         ELSE text

(***************************************************************************)
(* generate_response(query), up to requests.post: translation, ranking and *)
(* the prompt.  None of it is inside the try block, so what ranking raises *)
(* leaves generate_response.                                               *)
(***************************************************************************)
Prompt(context, query) ==
    Str("Context:\n") \o context \o Str("\nQuestion: ") \o query \o Str("\nAnswer:")

BuildRequest(user_input, docs, detected_lang, translated, sims, perm) ==
    LET query == translate_to_english(user_input, detected_lang, translated)
        context_chunks == get_relevant_chunks_smart(query, docs, DEFAULT_K, sims, perm)
    IN  IF context_chunks.kind = "raise" THEN context_chunks
        ELSE Ok([user_input |-> user_input, query |-> query,
                 prompt |-> Prompt(join(Str("\n"), context_chunks.val), query)])

(***************************************************************************)
(* generate_response(query), from requests.post on: the try block.         *)
(***************************************************************************)
ErrorAnswer(e) == Str("Error: ") \o Str(e)

ParseReply(reply) ==
    IF reply.kind = "raise" THEN ErrorAnswer("ConnectionError")
    ELSE IF reply.body.kind = "completion" THEN reply.body.content
    ELSE IF reply.body.kind = "no_choices" THEN ErrorAnswer("'choices'")
    ELSE ErrorAnswer("Expecting value: line 1 column 1 (char 0)")

(***************************************************************************)
(* One run of the script, from its first line to requests.post or to its   *)
(* end.                                                                    *)
(***************************************************************************)
\* The load block with its guard forgotten: every run loads
LoadOnEveryRun == TRUE

\* if not st.session_state.ready:
LoadNeeded == ~ready

\* The document load block: the chunk list and ready flag it leaves, and whether
\* it stopped the script
Load(fetch) ==
    IF ~LoadNeeded
    THEN [documents |-> documents, ready |-> ready, stopped |-> FALSE,
          fetch |-> "none", status |-> 0]
    ELSE IF fetch.kind = "raise"
    THEN [documents |-> documents, ready |-> ready, stopped |-> TRUE,
          fetch |-> "raise", status |-> 0]
    ELSE LET chunks == chunk_text(fetch.text, DEFAULT_CHUNK_SIZE, DEFAULT_OVERLAP)
         IN  IF chunks.kind = "raise"
             THEN [documents |-> documents, ready |-> ready, stopped |-> TRUE,
                   fetch |-> "response", status |-> fetch.status]
             ELSE [documents |-> chunks.val, ready |-> TRUE, stopped |-> FALSE,
                   fetch |-> "response", status |-> fetch.status]

Turns == Len(chat_history) \div 2

\* The script reads the fetch outcome when it loads, the form data after the
\* page is drawn, and the translator and the scoring library inside
\* generate_response.
NotFetched == [kind |-> "none", status |-> 0, text |-> Str("")]

ScriptRun ==
    /\ pc = "idle"
    /\ \E fetch \in (IF LoadNeeded THEN FetchOutcomes ELSE {NotFetched}) :
        LET loaded == Load(fetch)
            Ended(how) == [fetch |-> loaded.fetch, status |-> loaded.status,
                           end |-> how, reply |-> NoReply]
        IN  /\ documents' = loaded.documents
            /\ ready' = loaded.ready
            /\ chat_history' = chat_history
            /\ IF loaded.stopped
               THEN /\ run' = Ended("stopped")                       \* st.stop()
                    /\ UNCHANGED <<pc, pending, net>>
               ELSE \E form \in FormData :
                    IF ~(form.present /\ form.user_input # <<>>)
                    THEN /\ run' = Ended("done")
                         /\ UNCHANGED <<pc, pending, net>>
                    ELSE /\ Turns < MaxTurns
                         /\ \E detected_lang \in Detections, translated \in Translations :
                            \E sp \in Scored([query |-> translate_to_english(form.user_input,
                                                            detected_lang, translated),
                                              docs |-> loaded.documents]) :
                              LET request == BuildRequest(form.user_input, loaded.documents,
                                                 detected_lang, translated, sp.sims, sp.perm)
                              IN  IF request.kind = "raise"
                                  THEN /\ run' = Ended("exception")  \* the run dies
                                       /\ UNCHANGED <<pc, pending, net>>
                                  ELSE /\ run' = Ended("posting")
                                       /\ pc' = "posting"
                                       /\ pending' = request.val
                                       /\ net' = [kind |-> "sent"]
    /\ UNCHANGED call

\* The completion service answers, or the connection fails
ServiceReplies(reply) ==
    /\ pc = "posting"
    /\ net = [kind |-> "sent"]
    /\ net' = reply
    /\ UNCHANGED <<chat_history, documents, ready, pc, pending, run, call>>

\* The two appends in the wrong order
AppendReplyFirst(history, user_input, answer) ==
    Append(Append(history, <<"AI", answer>>), <<"You", user_input>>)

\* The two appends of the form submission handler
AppendTurn(history, user_input, answer) ==
    Append(Append(history, <<"You", user_input>>), <<"AI", answer>>)

\* requests.post returns or raises; the rest of generate_response and of the
\* form submission handler, up to st.rerun()
PostReturns ==
    /\ pc = "posting"
    /\ net.kind \in {"raise", "response"}
    /\ chat_history' = AppendTurn(chat_history, pending.user_input, ParseReply(net))
    /\ pc' = "idle"
    /\ pending' = NoTurn
    /\ net' = NoReply
    /\ run' = [run EXCEPT !.end = "rerun", !.reply = net]
    /\ UNCHANGED <<documents, ready, call>>

Init == SessionInit /\ call = NoCall

Next ==
    \/ ScriptRun
    \/ \E reply \in Replies : ServiceReplies(reply)
    \/ PostReturns

Spec == Init /\ [][Next]_vars

\* The script runs to its next blocking call or to its end once it can; when
\* the user submits and when the service answers is up to them.
LiveSpec == Spec /\ WF_vars(PostReturns)

(***************************************************************************)
(* Claims about the helpers, checked under PureSpec.                       *)
(***************************************************************************)
Applied(f) == call.fn = f /\ call.out # NotRun

\* C5: rank(query, chunks, k) with an empty chunk sequence returns an empty
\* sequence without error, for the TF-IDF strategy and for the hybrid one,
\* for every query and k.
C5_EmptyChunksRankEmpty ==
    ((Applied("tfidf") \/ Applied("smart")) /\ call.docs = <<>>) => call.out = Ok(<<>>)

\* C6: chunk(text, chunk_size, overlap) with overlap >= chunk_size fails with a
\* ConfigurationError for every text; it never returns a chunk list.
C6_BadOverlapIsConfigurationError ==
    (Applied("chunk_text") /\ call.overlap >= call.chunk_size)
        => call.out = Raise("ConfigurationError")

\* The chunks in descending order of score, equal scores in ascending order of
\* index: chunk i stands at the place counting the chunks that go before it.
Before(sims, m, i) == sims[m] > sims[i] \/ (sims[m] = sims[i] /\ m < i)

PlaceOf(sims, i) == 1 + Cardinality({m \in 1..Len(sims) : Before(sims, m, i)})

RankedByScoreThenIndex(docs, sims) ==
    [j \in 1..Len(docs) |-> docs[CHOOSE i \in 1..Len(docs) : PlaceOf(sims, i) = j]]

\* C7: the TF-IDF strategy returns at most k chunks in descending order of
\* similarity, and of two chunks with equal score the one with the lower
\* original index comes first (and is the one kept at the top-k cut).
C7_TfidfTiesByLowerIndex ==
    (Applied("tfidf") /\ call.out.kind = "ok")
        => call.out.val = SubSeq(RankedByScoreThenIndex(call.docs, call.sims),
                                 1, Min(call.k, Len(call.docs)))

\* A whitespace-separated word of the query: a stretch of the query without
\* whitespace that whitespace or the query's ends enclose.
IsQueryWord(q, a, b) ==
    /\ 1 <= a /\ a <= b /\ b <= Len(q)
    /\ \A i \in a..b : ~IsSpace(q[i])
    /\ (a = 1 \/ IsSpace(q[a - 1]))
    /\ (b = Len(q) \/ IsSpace(q[b + 1]))

\* doc holds the word q[a..b] at some offset, letter case apart
HoldsWord(doc, q, a, b) ==
    \E off \in 0..(Len(doc) - (b - a + 1)) :
        \A i \in a..b : LowerChar(doc[off + i - a + 1]) = LowerChar(q[i])

MatchingIndices(q, docs) ==
    {i \in 1..Len(docs) :
        \E a \in 1..Len(q), b \in 1..Len(q) : IsQueryWord(q, a, b) /\ HoldsWord(docs[i], q, a, b)}

\* The members of a set of indices in ascending order
Ascending(S) ==
    [j \in 1..Cardinality(S) |-> CHOOSE i \in S : Cardinality({m \in S : m < i}) = j - 1]

\* C8: when some chunk contains a whitespace-separated query word as a
\* case-insensitive substring, the hybrid strategy returns exactly the first k
\* such chunks in original order (all of them if fewer than k) whatever the
\* TF-IDF scores; only when no chunk matches does it return the TF-IDF result.
C8_HybridKeywordFirst ==
    Applied("smart") =>
        LET M == MatchingIndices(call.query, call.docs)
            first == SubSeq(Ascending(M), 1, Min(call.k, Cardinality(M)))
        IN  IF M # {}
            THEN call.out = Ok([j \in 1..Len(first) |-> call.docs[first[j]]])
            ELSE call.out = get_relevant_chunks_tfidf(call.query, call.docs, call.k,
                                                      call.sims, call.perm)

\* C8's case: two chunks match, k cuts the second off, and the chunk cut off
\* scores higher than the one returned.
C8_Witness ==
    /\ Applied("smart")
    /\ Cardinality(MatchingIndices(call.query, call.docs)) = 2
    /\ call.k = 1
    /\ call.sims[2] > call.sims[1]
    /\ call.docs[1] # call.docs[2]
    /\ call.out = Ok(<<call.docs[1]>>)

(***************************************************************************)
(* Claims about the session, checked under Spec (C10 under LiveSpec).      *)
(***************************************************************************)
\* C1: answer(query) (generate_response) never raises: an exception thrown in
\* translation, ranking, prompt composition or generation is returned as an
\* error-describing answer, so no script run dies in generate_response.
C1_AnswerNeverRaises == run.end # "exception"

HistoryWellFormed ==
    /\ Len(chat_history) % 2 = 0
    /\ \A i \in 1..Len(chat_history) :
         chat_history[i][1] = (IF i % 2 = 1 THEN "You" ELSE "AI")

HistoryStep ==
    LET n == Len(chat_history)
        TurnCompletes == pc = "posting" /\ pc' = "idle"
    IN  /\ Len(chat_history') >= n
        /\ SubSeq(chat_history', 1, n) = chat_history
        /\ IF TurnCompletes
           THEN /\ Len(chat_history') = n + 2
                /\ chat_history'[n + 1] = <<"You", pending.user_input>>
                /\ chat_history'[n + 2][1] = "AI"
           ELSE chat_history' = chat_history

\* C2: the chat history is append-only and grows by exactly two entries per
\* completed turn, the user message first and the assistant reply second: no
\* entry is changed, reordered or removed, the length is always even, and user
\* messages and assistant replies alternate.
C2_HistoryAppendOnly == [](HistoryWellFormed) /\ [][HistoryStep]_vars

HasErrorIndicator(answer) == Contains(Str("Error"), answer)

\* C2's case: two turns completed, the first answered by an error string.
C2_Witness ==
    /\ Len(chat_history) = 4
    /\ HasErrorIndicator(chat_history[2][2])
    /\ ~HasErrorIndicator(chat_history[4][2])

\* The completion service failed: a network error, a non-2xx status, or a body
\* without choices[0].message.content
ServiceFailed(reply) ==
    \/ reply.kind = "raise"
    \/ reply.kind = "response" /\ reply.status \notin 200..299
    \/ reply.kind = "response" /\ reply.body.kind # "completion"

\* C3: when the completion service fails, the reply appended to the chat
\* history for the turn contains an error indicator, and the session stays
\* Ready for a later turn.
C3_FailureYieldsErrorReply ==
    (run.end = "rerun" /\ ServiceFailed(run.reply))
        => /\ chat_history # <<>>
           /\ chat_history[Len(chat_history)][1] = "AI"
           /\ HasErrorIndicator(chat_history[Len(chat_history)][2])
           /\ ready /\ pc = "idle"

\* C4: a document fetch that ends with a non-success status or a network error
\* is a load failure: the session does not become Ready, no chunk set from that
\* response is stored and no chat turn is processed.
C4_FailedFetchIsLoadFailure ==
    (run.fetch = "raise" \/ (run.fetch = "response" /\ run.status \notin 200..299))
        => ~ready /\ documents = <<>> /\ run.end = "stopped"

\* C9: Ready is terminal: once the session is Ready no script run, answer turn
\* or failed generation sets ready back to false, reloads the document or
\* changes the stored chunk set.
C9_ReadyIsTerminal == [][ready => (ready' /\ documents' = documents)]_vars

\* C9's case: the session is Ready with chunks stored, a generation has failed
\* and the script has run again after it.
C9_Witness ==
    /\ ready /\ documents # <<>>
    /\ chat_history # <<>>
    /\ HasErrorIndicator(chat_history[Len(chat_history)][2])
    /\ run.end = "done" /\ run.fetch = "none"

\* C10: every generation call eventually returns: a turn blocked in the
\* completion request is eventually completed, whether or not the service
\* ever responds.
C10_PostEventuallyReturns == (pc = "posting") ~> (pc = "idle")

====
